---- MODULE Spec2Model ----
(***************************************************************************)
(* sz_simple_redoer.py: the redo loop of src/sz_simple_redoer.py.          *)
(*                                                                         *)
(* One coordinating thread (lines 119-246) keeps at most max_workers       *)
(* futures in the dict `futures`, harvests completions, consults the       *)
(* governor and refills from g2.getRedoRecord.  The worker threads of the  *)
(* ThreadPoolExecutor run process_msg (lines 44-55) and finish on their    *)
(* own; the wall clock (time.time()) advances on its own.                  *)
(*                                                                         *)
(* Collaborators: g2.getRedoRecord returns a record, an empty response or  *)
(* raises; executor.submit (or response.decode()) may raise; process_msg   *)
(* returns or re-raises a G2BadInputException, a G2RetryTimeoutExceeded or *)
(* another exception, seen when fut.result() is read; governor.govern()    *)
(* returns a negative, zero or positive number.  Time is in seconds.       *)
(***************************************************************************)
EXTENDS Integers, Sequences, FiniteSets, TLC

\* ------------------------------------------------------------------ bounds
\* Records the Record Source can hand out in one run of the model.
MaxRecords == 3
\* Clock advances (sleeps, wait timeouts, delays) the model follows; after
\* them the modelled clock stands still.
MaxTicks == 1

\* ------------------------------------------------------- program constants
INTERVAL == 1000
\* os.getenv("LONG_RECORD", default=300): the int 300 when the variable is
\* unset, a str when it is set (see longRecordIsStr).
LONG_RECORD == 300
EMPTY_PAUSE_TIME == 60
\* SENZING_THREADS_PER_PROCESS of the modelled environment
max_workers == 2
\* timeout=10 of concurrent.futures.wait
WAIT_TIMEOUT == 10
\* the code the G2BadInputException handler logs specially
TRANSLITERATION_CODE == 7426
\* another engine error code a G2BadInputException can carry
OTHER_BAD_INPUT_CODE == 7234

\* --------------------------------------------------------------- inputs
\* What loggingID can find in a record: DATA_SOURCE and RECORD_ID, UMF_PROC
\* (a repair message), or neither.
RecordKinds == {"dsrc", "repair", "unknown"}
\* Exception codes of a G2BadInputException.
BadInputCodes == {TRANSLITERATION_CODE, OTHER_BAD_INPUT_CODE}
\* How process_msg ends, as fut.result() shows it: it returns, or re-raises
\* the engine's exception.
Outcomes ==
    {[cls |-> "success", code |-> 0],
     [cls |-> "retry", code |-> 0],
     [cls |-> "other", code |-> 0]}
    \cup {[cls |-> "badinput", code |-> c] : c \in BadInputCodes}
\* no future harvested yet in this iteration
NoResult == [cls |-> "none", code |-> 0]
\* Values governor.govern() returns: blocked, proceed, sleep that long.
GovernorDecisions == {-1, 0, 1}
\* Time that passes on its own between two steps of the loop.
Delays == {1, 2 * LONG_RECORD + 1}

VARIABLES
    pc,              \* position of the coordinating thread
    now,             \* time.time()
    ticks,           \* clock advances so far (model horizon)
    longRecordIsStr, \* LONG_RECORD came from the environment (a str)
    futures,         \* the dict futures, in insertion order: fut -> (msg, start)
    futState,        \* per future in `futures`: "running" or "done"
    done,            \* the set `done` returned by wait, not yet iterated
    messages,        \* completed-task counter
    nowTime, prevTime, logCheckTime,
    empty_pause,     \* 0, or the empty-pause deadline
    pauseSeconds,    \* last value of governor.govern()
    numStuck, idx,   \* the scans over futures.items()
    nextRec,         \* records handed out by g2.getRedoRecord so far, plus 1
    nextFut,         \* futures created by executor.submit so far, plus 1
    submits,         \* per record: how often it was passed to executor.submit
    out,             \* what the current iteration has printed so far
    emptyAt,         \* time of the last empty getRedoRecord, -1 if none or
                     \* if a fetch has followed it
    regAtFatal,      \* futures in the registry when the handler was entered
    exitStatus,      \* process exit status once pc = "exited"
    result           \* what fut.result() gave in the last pass of the for
                     \* loop of this iteration

vars == <<pc, now, ticks, longRecordIsStr, futures, futState, done, messages,
          nowTime, prevTime, logCheckTime, empty_pause, pauseSeconds,
          numStuck, idx, nextRec, nextFut, submits, out, emptyAt, regAtFatal,
          exitStatus, result>>

\* ---------------------------------------------------------------- helpers
Range(s) == {s[i] : i \in 1..Len(s)}

\* the future handles that are keys of the dict
Handles == {futures[i].fut : i \in 1..Len(futures)}

\* futures.pop(fut): the dict without that key, order of the rest kept
Pop(fs, f) == SelectSeq(fs, LAMBDA e : e.fut # f)

\* fut.done()
IsDone(f) == futState[f] = "done"

\* time.time() after d more seconds; the modelled clock stops at the horizon
Advance(d) == IF ticks < MaxTicks THEN now + d ELSE now
Tock == IF ticks < MaxTicks THEN ticks + 1 ELSE ticks

\* loggingID(rec), lines 34-42: "raise" stands for the NameError that the
\* undefined names PARAMS, PARAM and VALUE raise on a repair message.
loggingID(kind) ==
    CASE kind = "dsrc" -> "dsrc : rec_id"
      [] kind = "repair" -> "raise"
      [] OTHER -> "UNKNOWN RECORD"

\* ExitCode of exit(0)
ExitCodeZero == 0 % 256

\* exit(-1): the status the parent process sees
ExitCode == (-1) % 256

\* Nothing printed yet.  notices: "Transliteration failure" lines, noticeRec:
\* the record the last one names, retryLines: "Hit retry timeout" lines,
\* reports and speed: "Processed ... redo" lines and the last rate, stats:
\* engine stats dumps, longDiag: the futures named by "Long record" lines,
\* allStuck: "All ... threads are stuck" lines, stillDiag: the futures named
\* by "Still processing" lines.
NoOutput ==
    [notices |-> 0, noticeRec |-> 0, retryLines |-> 0, reports |-> 0,
     speed |-> 0, stats |-> 0, longDiag |-> <<>>, allStuck |-> 0,
     stillDiag |-> {}]

\* ------------------------------------------------------------------ Init
\* lines 107-122: the state when the loop is entered
Init ==
    /\ pc = "top"
    /\ now = 0
    /\ ticks = 0
    /\ longRecordIsStr \in BOOLEAN
    /\ futures = <<>>
    /\ futState = [f \in {} |-> "running"]
    /\ done = {}
    /\ messages = 0
    /\ nowTime = 0
    /\ prevTime = 0
    /\ logCheckTime = 0
    /\ empty_pause = 0
    /\ pauseSeconds = 0
    /\ numStuck = 0
    /\ idx = 0
    /\ nextRec = 1
    /\ nextFut = 1
    /\ submits = [r \in 1..MaxRecords |-> 0]
    /\ out = NoOutput
    /\ emptyAt = -1
    /\ regAtFatal = {}
    /\ exitStatus = -1
    /\ result = NoResult

\* ------------------------------------------------- the coordinating thread
\* Top with governor.govern() inside `if futures:`
TopGovernsOnlyWithFutures ==
    /\ pc = "top"
    /\ nowTime' = now
    /\ out' = NoOutput
    /\ result' = NoResult
    /\ pc' = IF futures # <<>> THEN "wait" ELSE "pausecheck"
    /\ UNCHANGED <<now, ticks, longRecordIsStr, futures, futState, done,
                   messages, prevTime, logCheckTime, empty_pause,
                   pauseSeconds, numStuck, idx, nextRec, nextFut, submits,
                   emptyAt, regAtFatal, exitStatus>>

\* lines 126-127: capture nowTime, wait only when the dict is non-empty
Top ==
    /\ pc = "top"
    /\ nowTime' = now
    /\ out' = NoOutput
    /\ result' = NoResult
    /\ pc' = IF futures # <<>> THEN "wait" ELSE "govern"
    /\ UNCHANGED <<now, ticks, longRecordIsStr, futures, futState, done,
                   messages, prevTime, logCheckTime, empty_pause,
                   pauseSeconds, numStuck, idx, nextRec, nextFut, submits,
                   emptyAt, regAtFatal, exitStatus>>

\* WaitReturn handing back an empty set of completed futures
WaitReturnNothing ==
    /\ pc = "wait"
    /\ {f \in Handles : IsDone(f)} # {}
    /\ done' = {}
    /\ pc' = "harvest"
    /\ UNCHANGED <<now, ticks, longRecordIsStr, futures, futState, messages,
                   nowTime, prevTime, logCheckTime, empty_pause, pauseSeconds,
                   numStuck, idx, nextRec, nextFut, submits, out, emptyAt,
                   regAtFatal, exitStatus, result>>

\* lines 128-132: wait returns the futures that have completed
WaitReturn ==
    /\ pc = "wait"
    /\ {f \in Handles : IsDone(f)} # {}
    /\ done' = {f \in Handles : IsDone(f)}
    /\ pc' = "harvest"
    /\ UNCHANGED <<now, ticks, longRecordIsStr, futures, futState, messages,
                   nowTime, prevTime, logCheckTime, empty_pause, pauseSeconds,
                   numStuck, idx, nextRec, nextFut, submits, out, emptyAt,
                   regAtFatal, exitStatus, result>>

\* lines 128-132: nothing completed within timeout=10
WaitTimeout ==
    /\ pc = "wait"
    /\ {f \in Handles : IsDone(f)} = {}
    /\ done' = {}
    /\ now' = Advance(WAIT_TIMEOUT)
    /\ ticks' = Tock
    /\ pc' = "harvest"
    /\ UNCHANGED <<longRecordIsStr, futures, futState, messages, nowTime,
                   prevTime, logCheckTime, empty_pause, pauseSeconds, numStuck,
                   idx, nextRec, nextFut, submits, out, emptyAt, regAtFatal,
                   exitStatus, result>>

\* Recoverable without the `except G2RetryTimeoutExceeded` clause
RecoverableNoRetry(o) == o.cls \in {"success", "badinput"}

\* lines 139-152: which exceptions of fut.result() the loop handles
Recoverable(o) == o.cls \in {"success", "badinput", "retry"}

\* IsTransliteration without the test of the code: every bad input is logged
IsAnyBadInput(o) == o.cls = "badinput"

\* lines 146-149: ExceptionCode(err) == 7426
IsTransliteration(o) == o.cls = "badinput" /\ o.code = TRANSLITERATION_CODE

\* Speed with `diff != 0.0` for `diff > 0.0`
SpeedOfNegative(diff) == IF diff # 0 THEN INTERVAL \div diff ELSE -1

\* lines 157-160: speed = -1, or int(INTERVAL / diff) when diff > 0.0
Speed(diff) == IF diff > 0 THEN INTERVAL \div diff ELSE -1

\* the entry of the dict under key f
Entry(f) == CHOOSE e \in Range(futures) : e.fut = f

\* what one pass of the for loop prints (lines 142-152 and 161-163)
Harvested(o, rec, rep) ==
    [out EXCEPT
       !.notices = IF IsTransliteration(o) THEN @ + 1 ELSE @,
       !.noticeRec = IF IsTransliteration(o) THEN rec ELSE @,
       !.retryLines = IF o.cls = "retry" THEN @ + 1 ELSE @,
       !.reports = IF rep THEN @ + 1 ELSE @,
       !.speed = IF rep THEN Speed(nowTime - prevTime) ELSE @]

\* HarvestOne with `messages += 1` left out for a G2BadInputException
HarvestOneSkipsBadInput(f, o) ==
    /\ pc = "harvest"
    /\ f \in done
    /\ done' = done \ {f}
    /\ futures' = Pop(futures, f)
    /\ futState' = [g \in DOMAIN futState \ {f} |-> futState[g]]
    /\ result' = o
    /\ IF Recoverable(o)
         THEN /\ messages' = IF o.cls = "badinput" THEN messages
                             ELSE messages + 1
              /\ LET rep == (messages + 1) % INTERVAL = 0
                 IN /\ out' = Harvested(o, Entry(f).rec, rep)
                    /\ prevTime' = IF rep THEN nowTime ELSE prevTime
              /\ pc' = "harvest"
         ELSE /\ pc' = "fatal"
              /\ UNCHANGED <<messages, out, prevTime>>
    /\ UNCHANGED <<now, ticks, longRecordIsStr, nowTime, logCheckTime,
                   empty_pause, pauseSeconds, numStuck, idx, nextRec, nextFut,
                   submits, emptyAt, regAtFatal, exitStatus>>

\* lines 137-164: one pass of `for fut in done`; fut.result() shows outcome o
HarvestOne(f, o) ==
    /\ pc = "harvest"
    /\ f \in done
    /\ done' = done \ {f}
    /\ futures' = Pop(futures, f)
    /\ futState' = [g \in DOMAIN futState \ {f} |-> futState[g]]
    /\ result' = o
    /\ IF Recoverable(o)
         THEN /\ messages' = messages + 1
              /\ LET rep == (messages + 1) % INTERVAL = 0
                 IN /\ out' = Harvested(o, Entry(f).rec, rep)
                    /\ prevTime' = IF rep THEN nowTime ELSE prevTime
              /\ pc' = "harvest"
         ELSE /\ pc' = "fatal"
              /\ UNCHANGED <<messages, out, prevTime>>
    /\ UNCHANGED <<now, ticks, longRecordIsStr, nowTime, logCheckTime,
                   empty_pause, pauseSeconds, numStuck, idx, nextRec, nextFut,
                   submits, emptyAt, regAtFatal, exitStatus>>

\* lines 166-176: after the for loop, still inside `if futures:`
LongCheck ==
    /\ pc = "harvest"
    /\ done = {}
    /\ IF longRecordIsStr
         THEN \* LONG_RECORD / 2 on a str: TypeError
              /\ pc' = "fatal"
              /\ UNCHANGED <<logCheckTime, out, numStuck, idx>>
         ELSE IF nowTime > logCheckTime + (LONG_RECORD \div 2)
                THEN /\ logCheckTime' = nowTime
                     /\ out' = [out EXCEPT !.stats = @ + 1,
                                           !.longDiag = <<>>,
                                           !.allStuck = 0]
                     /\ numStuck' = 0
                     /\ idx' = 1
                     /\ pc' = IF futures = <<>> THEN "govern" ELSE "scan"
                ELSE /\ pc' = "govern"
                     /\ UNCHANGED <<logCheckTime, out, numStuck, idx>>
    /\ UNCHANGED <<now, ticks, longRecordIsStr, futures, futState, done,
                   messages, nowTime, prevTime, empty_pause, pauseSeconds,
                   nextRec, nextFut, submits, emptyAt, regAtFatal, exitStatus, result>>

\* lines 178-180: the task is not done and older than LONG_RECORD * 2
IsStuck(e) == ~IsDone(e.fut) /\ nowTime - e.start > LONG_RECORD * 2

\* ScanOne with `numStuck >= 1` for `numStuck >= executor._max_workers`
ScanOneAnyStuck ==
    /\ pc = "scan"
    /\ LET e == futures[idx]
           n == IF IsStuck(e) THEN numStuck + 1 ELSE numStuck
       IN /\ numStuck' = n
          /\ IF IsStuck(e) /\ loggingID(e.kind) = "raise"
               THEN /\ pc' = "fatal"
                    /\ UNCHANGED <<out, idx>>
               ELSE /\ out' = [out EXCEPT
                          !.longDiag = IF IsStuck(e) THEN Append(@, e.fut)
                                       ELSE @,
                          !.allStuck = IF n >= 1 THEN @ + 1 ELSE @]
                    /\ idx' = idx + 1
                    /\ pc' = IF idx = Len(futures) THEN "govern" ELSE "scan"
    /\ UNCHANGED <<now, ticks, longRecordIsStr, futures, futState, done,
                   messages, nowTime, prevTime, logCheckTime, empty_pause,
                   pauseSeconds, nextRec, nextFut, submits, emptyAt,
                   regAtFatal, exitStatus, result>>

\* lines 177-189: one pass of `for fut, msg in futures.items()`
ScanOne ==
    /\ pc = "scan"
    /\ LET e == futures[idx]
           n == IF IsStuck(e) THEN numStuck + 1 ELSE numStuck
       IN /\ numStuck' = n
          /\ IF IsStuck(e) /\ loggingID(e.kind) = "raise"
               THEN /\ pc' = "fatal"
                    /\ UNCHANGED <<out, idx>>
               ELSE /\ out' = [out EXCEPT
                          !.longDiag = IF IsStuck(e) THEN Append(@, e.fut)
                                       ELSE @,
                          !.allStuck = IF n >= max_workers THEN @ + 1 ELSE @]
                    /\ idx' = idx + 1
                    /\ pc' = IF idx = Len(futures) THEN "govern" ELSE "scan"
    /\ UNCHANGED <<now, ticks, longRecordIsStr, futures, futState, done,
                   messages, nowTime, prevTime, logCheckTime, empty_pause,
                   pauseSeconds, nextRec, nextFut, submits, emptyAt,
                   regAtFatal, exitStatus, result>>

\* AfterGovern without the `pauseSeconds < 0.0` branch
AfterGovernNoBlock(p) ==
    IF Len(futures) >= max_workers THEN "sleep198"
    ELSE IF p > 0 THEN "sleep201"
    ELSE "pausecheck"

\* AfterGovern with `pauseSeconds >= 0.0` for `pauseSeconds > 0.0`
AfterGovernSleepsOnZero(p) ==
    IF p < 0 THEN "sleep195"
    ELSE IF Len(futures) >= max_workers THEN "sleep198"
    ELSE IF p >= 0 THEN "sleep201"
    ELSE "pausecheck"

\* AfterGovern with a negative answer ending the loop
AfterGovernEndsOnNegative(p) ==
    IF p < 0 THEN "fatal"
    ELSE IF Len(futures) >= max_workers THEN "sleep198"
    ELSE IF p > 0 THEN "sleep201"
    ELSE "pausecheck"

\* lines 194-201: where the loop goes with the governor's answer p
AfterGovern(p) ==
    IF p < 0 THEN "sleep195"
    ELSE IF Len(futures) >= max_workers THEN "sleep198"
    ELSE IF p > 0 THEN "sleep201"
    ELSE "pausecheck"

\* lines 191-201: governor.govern() and the branches on its answer
Govern(p) ==
    /\ pc = "govern"
    /\ pauseSeconds' = p
    /\ pc' = AfterGovern(p)
    /\ UNCHANGED <<now, ticks, longRecordIsStr, futures, futState, done,
                   messages, nowTime, prevTime, logCheckTime, empty_pause,
                   numStuck, idx, nextRec, nextFut, submits, out, emptyAt,
                   regAtFatal, exitStatus, result>>

\* lines 195-196, 198-199, 205-206: time.sleep(1); continue
BackoffSleep ==
    /\ pc \in {"sleep195", "sleep198", "sleep205"}
    /\ now' = Advance(1)
    /\ ticks' = Tock
    /\ pc' = "top"
    /\ UNCHANGED <<longRecordIsStr, futures, futState, done, messages,
                   nowTime, prevTime, logCheckTime, empty_pause, pauseSeconds,
                   numStuck, idx, nextRec, nextFut, submits, out, emptyAt,
                   regAtFatal, exitStatus, result>>

\* line 201: time.sleep(pauseSeconds)
GovernorSleep ==
    /\ pc = "sleep201"
    /\ now' = Advance(pauseSeconds)
    /\ ticks' = Tock
    /\ pc' = "pausecheck"
    /\ UNCHANGED <<longRecordIsStr, futures, futState, done, messages,
                   nowTime, prevTime, logCheckTime, empty_pause, pauseSeconds,
                   numStuck, idx, nextRec, nextFut, submits, out, emptyAt,
                   regAtFatal, exitStatus, result>>

\* PausePending with the comparison turned round
PausePendingInverted == empty_pause # 0 /\ now > empty_pause

\* lines 203-204: an empty-pause deadline is set and not yet reached
PausePending == empty_pause # 0 /\ now < empty_pause

\* lines 203-207
PauseCheck ==
    /\ pc = "pausecheck"
    /\ IF PausePending
         THEN pc' = "sleep205" /\ UNCHANGED empty_pause
         ELSE pc' = "fill" /\ empty_pause' = 0
    /\ UNCHANGED <<now, ticks, longRecordIsStr, futures, futState, done,
                   messages, nowTime, prevTime, logCheckTime, pauseSeconds,
                   numStuck, idx, nextRec, nextFut, submits, out, emptyAt,
                   regAtFatal, exitStatus, result>>

\* HasRoom with <= for <
HasRoomOffByOne == Len(futures) <= max_workers

\* line 209: while len(futures) < executor._max_workers
HasRoom == Len(futures) < max_workers

\* line 209: the while condition is false, back to line 124
FillDone ==
    /\ pc = "fill"
    /\ ~HasRoom
    /\ pc' = "top"
    /\ UNCHANGED <<now, ticks, longRecordIsStr, futures, futState, done,
                   messages, nowTime, prevTime, logCheckTime, empty_pause,
                   pauseSeconds, numStuck, idx, nextRec, nextFut, submits,
                   out, emptyAt, regAtFatal, exitStatus, result>>

\* Submitted with the message of the previous pass of the while loop
SubmittedStale(fs, k) ==
    Append(fs, [fut |-> nextFut,
                rec |-> IF fs # <<>> THEN fs[Len(fs)].rec ELSE nextRec,
                kind |-> k, start |-> now])

\* lines 221-224: futures[executor.submit(...)] = (msg, time.time())
Submitted(fs, k) ==
    Append(fs, [fut |-> nextFut, rec |-> nextRec, kind |-> k, start |-> now])

\* lines 211-224: getRedoRecord returned a record of kind k, submit took it
FillRecord(k) ==
    /\ pc = "fill"
    /\ HasRoom
    /\ nextRec <= MaxRecords
    /\ futures' = Submitted(futures, k)
    /\ futState' = [f \in DOMAIN futState \cup {nextFut} |->
                      IF f = nextFut THEN "running" ELSE futState[f]]
    /\ submits' = [submits EXCEPT
                     ![Submitted(futures, k)[Len(futures) + 1].rec] = @ + 1]
    /\ nextRec' = nextRec + 1
    /\ nextFut' = nextFut + 1
    /\ emptyAt' = -1
    /\ UNCHANGED <<pc, now, ticks, longRecordIsStr, done, messages, nowTime,
                   prevTime, logCheckTime, empty_pause, pauseSeconds, numStuck,
                   idx, out, regAtFatal, exitStatus, result>>

\* lines 214-219: empty response, set the deadline and break
FillEmpty ==
    /\ pc = "fill"
    /\ HasRoom
    /\ empty_pause' = now + EMPTY_PAUSE_TIME
    /\ emptyAt' = now
    /\ pc' = "top"
    /\ UNCHANGED <<now, ticks, longRecordIsStr, futures, futState, done,
                   messages, nowTime, prevTime, logCheckTime, pauseSeconds,
                   numStuck, idx, nextRec, nextFut, submits, out, regAtFatal,
                   exitStatus, result>>

\* lines 212, 225-227: g2.getRedoRecord raised
FillFetchRaises ==
    /\ pc = "fill"
    /\ HasRoom
    /\ pc' = "fatal"
    /\ emptyAt' = -1
    /\ UNCHANGED <<now, ticks, longRecordIsStr, futures, futState, done,
                   messages, nowTime, prevTime, logCheckTime, empty_pause,
                   pauseSeconds, numStuck, idx, nextRec, nextFut, submits,
                   out, regAtFatal, exitStatus, result>>

\* lines 220-227: a record was fetched, response.decode() or executor.submit
\* raised
FillSubmitRaises ==
    /\ pc = "fill"
    /\ HasRoom
    /\ nextRec <= MaxRecords
    /\ nextRec' = nextRec + 1
    /\ pc' = "fatal"
    /\ emptyAt' = -1
    /\ UNCHANGED <<now, ticks, longRecordIsStr, futures, futState, done,
                   messages, nowTime, prevTime, logCheckTime, empty_pause,
                   pauseSeconds, numStuck, idx, nextFut, submits, out,
                   regAtFatal, exitStatus, result>>

\* HandlerEnter counting the failed task as completed
HandlerEnterCounts ==
    /\ pc = "fatal"
    /\ regAtFatal' = Handles
    /\ nowTime' = now
    /\ idx' = 1
    /\ messages' = messages + 1
    /\ pc' = IF futures = <<>> THEN "shutdown" ELSE "dump"
    /\ UNCHANGED <<now, ticks, longRecordIsStr, futures, futState, done,
                   prevTime, logCheckTime, empty_pause, pauseSeconds,
                   numStuck, nextRec, nextFut, submits, out, emptyAt,
                   exitStatus, result>>

\* lines 231-237: the handler is entered
HandlerEnter ==
    /\ pc = "fatal"
    /\ regAtFatal' = Handles
    /\ nowTime' = now
    /\ idx' = 1
    /\ pc' = IF futures = <<>> THEN "shutdown" ELSE "dump"
    /\ UNCHANGED <<now, ticks, longRecordIsStr, futures, futState, done,
                   messages, prevTime, logCheckTime, empty_pause, pauseSeconds,
                   numStuck, nextRec, nextFut, submits, out, emptyAt,
                   exitStatus, result>>

\* lines 238-245: one pass of the handler's `for fut, msg in futures.items()`.
\* A NameError of loggingID leaves the handler: the `with` statement's
\* __exit__ then shuts the executor down ("ctxexit").
DumpOne ==
    /\ pc = "dump"
    /\ LET e == futures[idx]
       IN IF ~IsDone(e.fut) /\ loggingID(e.kind) = "raise"
            THEN pc' = "ctxexit" /\ UNCHANGED <<out, idx>>
            ELSE /\ out' = [out EXCEPT
                       !.stillDiag = IF ~IsDone(e.fut) THEN @ \cup {e.fut}
                                     ELSE @]
                 /\ idx' = idx + 1
                 /\ pc' = IF idx = Len(futures) THEN "shutdown" ELSE "dump"
    /\ UNCHANGED <<now, ticks, longRecordIsStr, futures, futState, done,
                   messages, nowTime, prevTime, logCheckTime, empty_pause,
                   pauseSeconds, numStuck, nextRec, nextFut, submits, emptyAt,
                   regAtFatal, exitStatus, result>>

\* executor.shutdown() (line 245, or __exit__ of line 119) has wait=True: it
\* returns when every worker thread has finished its task
Joined == \A f \in Handles : IsDone(f)

\* lines 245-246, or lines 119 and 248-251: shutdown returned, exit(-1)
ShutdownExit ==
    /\ pc \in {"shutdown", "ctxexit"}
    /\ Joined
    /\ pc' = "exited"
    /\ exitStatus' = ExitCode
    /\ UNCHANGED <<now, ticks, longRecordIsStr, futures, futState, done,
                   messages, nowTime, prevTime, logCheckTime, empty_pause,
                   pauseSeconds, numStuck, idx, nextRec, nextFut, submits,
                   out, emptyAt, regAtFatal, result>>

\* ---------------------------------------------------------- worker threads
\* The loop learns that a future is done at wait (line 128), at fut.done()
\* (lines 178 and 239) and when shutdown joins the workers, so a task that
\* finishes anywhere in an iteration shows at these points.
DoneReadPcs == {"wait", "scan", "dump", "shutdown", "ctxexit"}

\* lines 44-55: process_msg of future f returns or re-raises
TaskFinish(f) ==
    /\ pc \in DoneReadPcs
    /\ f \in Handles
    /\ futState[f] = "running"
    /\ futState' = [futState EXCEPT ![f] = "done"]
    /\ UNCHANGED <<pc, now, ticks, longRecordIsStr, futures, done, messages,
                   nowTime, prevTime, logCheckTime, empty_pause, pauseSeconds,
                   numStuck, idx, nextRec, nextFut, submits, out, emptyAt,
                   regAtFatal, exitStatus, result>>

\* ------------------------------------------------------------------ clock
\* The loop reads time.time() at lines 126, 204, 218 and 223 only, so the
\* time that passes anywhere in an iteration shows at these reads: before
\* line 126, inside governor.govern() and inside g2.getRedoRecord.
ClockReadPcs == {"top", "govern", "fill"}

\* time passes on its own
Tick(d) ==
    /\ pc \in ClockReadPcs
    /\ ticks < MaxTicks
    /\ now' = now + d
    /\ ticks' = ticks + 1
    /\ UNCHANGED <<pc, longRecordIsStr, futures, futState, done, messages,
                   nowTime, prevTime, logCheckTime, empty_pause, pauseSeconds,
                   numStuck, idx, nextRec, nextFut, submits, out, emptyAt,
                   regAtFatal, exitStatus, result>>

\* ------------------------------------------------------- the specification
MainStep ==
    \/ Top
    \/ WaitReturn
    \/ WaitTimeout
    \/ \E f \in done, o \in Outcomes : HarvestOne(f, o)
    \/ LongCheck
    \/ ScanOne
    \/ \E p \in GovernorDecisions : Govern(p)
    \/ BackoffSleep
    \/ GovernorSleep
    \/ PauseCheck
    \/ FillDone
    \/ \E k \in RecordKinds : FillRecord(k)
    \/ FillEmpty
    \/ FillFetchRaises
    \/ FillSubmitRaises
    \/ HandlerEnter
    \/ DumpOne
    \/ ShutdownExit

Next ==
    \/ MainStep
    \/ \E f \in Handles : TaskFinish(f)
    \/ \E d \in Delays : Tick(d)

Spec == Init /\ [][Next]_vars

\* The coordinating thread keeps running whenever it can take a step; a worker
\* thread may stay inside the engine call for ever.
FairSpec == Spec /\ WF_vars(MainStep)

\* The run of spec.md section 8: the Record Source yields MaxRecords records
\* and then Empty for ever, every task succeeds, and the Governor does not
\* block for ever.
Success == [cls |-> "success", code |-> 0]

MainStepLive ==
    \/ Top
    \/ WaitReturn
    \/ WaitTimeout
    \/ \E f \in done : HarvestOne(f, Success)
    \/ LongCheck
    \/ ScanOne
    \/ \E p \in GovernorDecisions : Govern(p)
    \/ BackoffSleep
    \/ GovernorSleep
    \/ PauseCheck
    \/ FillDone
    \/ \E k \in RecordKinds : FillRecord(k)
    \/ (nextRec > MaxRecords /\ FillEmpty)
    \/ HandlerEnter
    \/ DumpOne
    \/ ShutdownExit

NextLive ==
    \/ MainStepLive
    \/ \E f \in Handles : TaskFinish(f)
    \/ \E d \in Delays : Tick(d)

LiveSpec ==
    /\ Init
    /\ [][NextLive]_vars
    /\ WF_vars(MainStepLive)
    /\ \A f \in 1..MaxRecords : SF_vars(TaskFinish(f))
    /\ SF_vars(\E p \in GovernorDecisions : p >= 0 /\ Govern(p))

\* ------------------------------------------------------------------ claims
FatalPcs == {"fatal", "dump", "shutdown", "ctxexit", "exited"}

\* a step of the loop that calls g2.getRedoRecord (lines 211-212)
SourceCalled ==
    /\ pc = "fill"
    /\ Len(futures) < max_workers
    /\ (pc' # "fill" \/ nextRec' # nextRec)

\* fs is what is left of the registry gs after pops
Shrunk(fs, gs) ==
    /\ Range(fs) \subseteq Range(gs)
    /\ Len(fs) <= Len(gs)

\* C1: in every reachable state the Task Registry holds at most PoolCapacity
\* tasks.
C1_RegistryBounded == Len(futures) <= max_workers

\* C1: the pool is full again after a harvest and a refill.
C1_Witness ==
    /\ Len(futures) = max_workers
    /\ messages > 0
    /\ pc = "sleep198"

\* C2 as stated: every record fetched has been submitted exactly once, and no
\* record is in the registry under two handles.
C2_Original ==
    /\ \A r \in 1..MaxRecords : submits[r] = IF r < nextRec THEN 1 ELSE 0
    /\ \A i, j \in 1..Len(futures) :
         i # j => futures[i].rec # futures[j].rec

\* C2 amended: a fetched record is submitted at most once, and exactly once
\* unless response.decode() or executor.submit raised for it, which takes the
\* loop to the fatal path; no record is in the registry under two handles and
\* no record is submitted again after its task was harvested.
C2_SubmittedAtMostOnce ==
    /\ \A r \in 1..MaxRecords :
         /\ submits[r] <= 1
         /\ r >= nextRec => submits[r] = 0
         /\ (r < nextRec /\ submits[r] = 0) =>
              (r = nextRec - 1 /\ pc \in FatalPcs)
    /\ \A i, j \in 1..Len(futures) :
         i # j => (futures[i].rec # futures[j].rec
                   /\ futures[i].fut # futures[j].fut)

\* C2: every record was fetched, one task ended in a retry timeout in this
\* iteration and the pool was refilled with other records.
C2_Witness ==
    /\ out.retryLines > 0
    /\ nextRec = MaxRecords + 1
    /\ Len(futures) = max_workers
    /\ \A r \in 1..MaxRecords : submits[r] = 1

\* C3 as stated: whenever the handler is entered the process terminates with
\* a non-zero status, whether or not the tasks in flight ever complete.
C3_Original == (pc = "fatal") ~> (pc = "exited" /\ exitStatus # 0)

\* C3 amended: whenever the handler is entered the process terminates with a
\* non-zero status, provided every task still running at that moment
\* eventually completes (executor.shutdown() waits for them).
C3_FatalExitsOnceJoined ==
    ([]<>Joined) => ((pc = "fatal") ~> (pc = "exited" /\ exitStatus # 0))

\* C3: the process has exited with a non-zero status from a handler that was
\* entered with tasks in the registry.
C3_Witness ==
    /\ pc = "exited"
    /\ exitStatus # 0
    /\ regAtFatal # {}

\* C4 as stated: once the shutdown of the pool has been requested, a "Still
\* processing" line has been printed for every task that was in the registry
\* when the handler was entered.
C4_Original ==
    pc \in {"shutdown", "ctxexit", "exited"} =>
        regAtFatal \subseteq out.stillDiag

\* C5: harvesting a completion that ended in a bad-input or a retry-timeout
\* failure removes the task from the registry, adds exactly one to the
\* completed-task counter and stays in the harvest loop, never the handler.
C5_RecoverableContinues ==
    [][(pc = "harvest" /\ done' # done
        /\ result'.cls \in {"badinput", "retry"}) =>
         (/\ pc' = "harvest"
          /\ messages' = messages + 1
          /\ Len(futures') = Len(futures) - 1
          /\ Shrunk(futures', futures)
          /\ \A f \in done \ done' :
               /\ f \in Handles
               /\ \A i \in 1..Len(futures') : futures'[i].fut # f)]_vars

\* C5: a retry-timeout failure was harvested and another completion of the
\* same wait is still to be harvested.
C5_Witness ==
    /\ pc = "harvest"
    /\ result.cls = "retry"
    /\ done # {}
    /\ messages = 1

\* C6 as stated: every harvested bad-input failure prints exactly one skip
\* notice, whatever its code.
C6_Original ==
    [][(pc = "harvest" /\ done' # done /\ result'.cls = "badinput") =>
         out'.notices = out.notices + 1]_vars

\* C6 amended: a harvested bad-input failure prints exactly one skip notice,
\* naming its record, when its code is 7426, and none for any other code.
C6_NoticeOnlyForTransliteration ==
    [][(pc = "harvest" /\ done' # done /\ result'.cls = "badinput") =>
         IF result'.code = TRANSLITERATION_CODE
           THEN /\ out'.notices = out.notices + 1
                /\ \E i \in 1..Len(futures) :
                     /\ futures[i].fut \in done \ done'
                     /\ out'.noticeRec = futures[i].rec
           ELSE /\ out'.notices = out.notices
                /\ out'.noticeRec = out.noticeRec]_vars

\* C6: in one iteration a bad input with code 7426 was logged and one with
\* another code was then harvested without a notice.
C6_Witness ==
    /\ pc = "harvest"
    /\ result.cls = "badinput"
    /\ result.code = OTHER_BAD_INPUT_CODE
    /\ out.notices = 1

\* C7: a negative Governor answer sends the loop to the 1-second sleep of
\* line 195 and from there to the next iteration; until the Governor answers
\* again with a non-negative value no record is fetched, no task is submitted
\* and the registry only shrinks.
C7_NegativeBlocksAdmission ==
    [][/\ (pc = "govern" /\ pc' # pc /\ pauseSeconds' < 0) => pc' = "sleep195"
       /\ (pc = "sleep195" /\ pc' # pc) =>
            (pc' = "top" /\ now' = Advance(1))
       /\ (pauseSeconds < 0 /\ pauseSeconds' < 0) =>
            (/\ ~SourceCalled
             /\ nextRec' = nextRec
             /\ nextFut' = nextFut
             /\ Shrunk(futures', futures))]_vars

\* C7: while the Governor's last answer is negative a completion was harvested.
C7_Witness ==
    /\ pauseSeconds < 0
    /\ pc = "harvest"
    /\ result.cls = "success"
    /\ Len(futures) < max_workers

\* C8 as stated: after a Governor answer of 0 the loop never sleeps before the
\* fill loop.
C8_Original ==
    pauseSeconds = 0 => pc \notin {"sleep198", "sleep201", "sleep205"}

\* C8 amended: after a Governor answer of 0 the loop does not sleep for the
\* Governor; with room in the registry and no empty-pause deadline pending it
\* reaches the fill loop in the same iteration without sleeping, and
\* otherwise it sleeps 1 second (line 198 or 205) and restarts the iteration.
C8_ZeroProceeds ==
    [][/\ (pc = "govern" /\ pc' # pc /\ pauseSeconds' = 0) =>
            (/\ pc' = IF Len(futures) >= max_workers THEN "sleep198"
                      ELSE "pausecheck"
             /\ now' = now)
       /\ (pc = "pausecheck" /\ pc' # pc /\ pauseSeconds = 0) =>
            (/\ pc' = IF empty_pause # 0 /\ now < empty_pause
                        THEN "sleep205" ELSE "fill"
             /\ now' = now)]_vars

\* C8: the Governor answered 0 and the fill loop is reached with tasks in
\* flight.
C8_Witness ==
    /\ pc = "fill"
    /\ pauseSeconds = 0
    /\ Len(futures) = 1
    /\ now = nowTime

\* C9: after an empty answer of the Record Source at time t, the source is not
\* called and nothing is submitted before the clock reaches
\* t + EMPTY_PAUSE_TIME; at the first pause check at or after the deadline the
\* deadline is cleared and the fill loop, with room in the registry, fetches.
C9_EmptyPauseHonoured ==
    [][/\ (SourceCalled \/ nextFut' # nextFut) =>
            (emptyAt = -1 \/ now >= emptyAt + EMPTY_PAUSE_TIME)
       /\ (pc = "pausecheck" /\ pc' # pc /\ empty_pause # 0) =>
            IF now >= empty_pause
              THEN /\ empty_pause' = 0
                   /\ pc' = "fill"
                   /\ Len(futures) < max_workers
              ELSE /\ pc' = "sleep205"
                   /\ empty_pause' = empty_pause]_vars

\* C9: the deadline of an empty answer was reached and cleared, and the fill
\* loop is about to fetch.
C9_Witness ==
    /\ pc = "fill"
    /\ emptyAt # -1
    /\ now >= emptyAt + EMPTY_PAUSE_TIME
    /\ empty_pause = 0

\* every record was processed and the loop is in the empty pause
Drained ==
    /\ messages = MaxRecords
    /\ futures = <<>>
    /\ \A r \in 1..MaxRecords : submits[r] = 1
    /\ empty_pause # 0

\* C10: with a Record Source that yields MaxRecords records and then Empty for
\* ever, tasks that all succeed and a Governor that does not block for ever,
\* the loop eventually has counted every record, with an empty registry,
\* every record submitted exactly once and the empty-pause deadline set.
C10_Original == <>Drained

\* a step that raises into the handler of line 231: fut.result() re-raised an
\* exception the for loop does not handle, LONG_RECORD / 2 or loggingID
\* raised, or the fetch or the submit of the fill loop raised
RaisesIntoHandler ==
    \/ pc = "harvest" /\ done' # done /\ ~Recoverable(result')
    \/ pc = "harvest" /\ done = {} /\ longRecordIsStr
    \/ pc = "scan" /\ IsStuck(futures[idx])
         /\ loggingID(futures[idx].kind) = "raise"
    \/ pc = "fill" /\ HasRoom /\ futures' = futures /\ empty_pause' = empty_pause

\* C11: the loop is left only by a step that raises into the handler, and the
\* process exits only from the handler's shutdown; an empty answer of the
\* Record Source, a negative Governor answer, a full pool, a sleep or a
\* recoverable failure takes the loop to its next step, and outside the fatal
\* path the coordinating thread always has a next step.
C11_OnlyFatalPathEnds ==
    /\ [](pc \notin FatalPcs => (exitStatus = -1 /\ ENABLED MainStep))
    /\ [][/\ (pc \notin FatalPcs /\ pc' \in FatalPcs) =>
               (pc' = "fatal" /\ RaisesIntoHandler)
          /\ (pc' = "exited" /\ pc # "exited") =>
               pc \in {"shutdown", "ctxexit"}
          /\ (pc = "fill" /\ empty_pause' # empty_pause) => pc' = "top"
          /\ (pc = "fill" /\ ~HasRoom /\ pc' # pc) => pc' = "top"
          /\ (pc = "govern" /\ pc' # pc) =>
               pc' \in {"sleep195", "sleep198", "sleep201", "pausecheck"}
          /\ (pc \in {"sleep195", "sleep198", "sleep205"} /\ pc' # pc) =>
               pc' = "top"
          /\ (pc = "harvest" /\ done' # done /\ Recoverable(result')) =>
               pc' = "harvest"]_vars

\* C11: after an empty answer of the Record Source and a negative Governor
\* answer the loop has harvested a retry-timeout failure and goes on.
C11_Witness ==
    /\ pc = "harvest"
    /\ result.cls = "retry"
    /\ empty_pause # 0
    /\ pauseSeconds < 0
    /\ exitStatus = -1

\* how often future f is named by a "Long record" line of this iteration
TimesFlagged(o, f) == Cardinality({i \in 1..Len(o.longDiag) : o.longDiag[i] = f})

\* the age the scan computes for a registry entry (line 179)
Age(e) == nowTime - e.start

\* C12 as stated: when a detection cycle ends, a "Long record" line has been
\* printed exactly once for each task in the registry whose age is greater
\* than 2 * LONG_RECORD, and none for any other task.
C12_Original ==
    [][(pc = "scan" /\ pc' # "scan") =>
         \A e \in Range(futures) :
            TimesFlagged(out', e.fut) =
                IF Age(e) > LONG_RECORD * 2 THEN 1 ELSE 0]_vars

\* C13 as stated: a step of the detection cycle, whatever the kind of the
\* record it flags, leaves the registry and the completed-task counter
\* unchanged, submits nothing, and leads to the next entry of the scan or to
\* the Governor step, never to the handler.
C13_Original ==
    [][pc = "scan" =>
         (/\ futures' = futures
          /\ messages' = messages
          /\ nextFut' = nextFut
          /\ submits' = submits
          /\ pc' \in {"scan", "govern"})]_vars

\* ------------------------------------------------ the throughput report
\* The loop at line 124 with an empty registry when INTERVAL - 1 records have
\* been fetched and harvested, LONG_RECORD unset; time, nextRec, nextFut and
\* submits are counted from this point, prevTime is the time of startup
\* (line 107) or of the last report (line 164).
InitReport ==
    /\ pc = "top"
    /\ now = 0
    /\ ticks = 0
    /\ longRecordIsStr = FALSE
    /\ futures = <<>>
    /\ futState = [f \in {} |-> "running"]
    /\ done = {}
    /\ messages = INTERVAL - 1
    /\ nowTime = 0
    /\ prevTime = 0
    /\ logCheckTime = 0
    /\ empty_pause = 0
    /\ pauseSeconds = 0
    /\ numStuck = 0
    /\ idx = 0
    /\ nextRec = 1
    /\ nextFut = 1
    /\ submits = [r \in 1..MaxRecords |-> 0]
    /\ out = NoOutput
    /\ emptyAt = -1
    /\ regAtFatal = {}
    /\ exitStatus = -1
    /\ result = NoResult

\* Changes of time.time() between two reads: the 2-second gap of spec.md
\* section 8, and a clock set back by a second (time.time() is not monotonic).
ReportDelays == {-1, 2}

\* Where that time passes: before line 126, or inside concurrent.futures.wait
\* (lines 128-132) before the first completion, after nowTime was captured.
ReportClockPcs == {"top", "wait"}

ReportTick(d) ==
    /\ pc \in ReportClockPcs
    /\ ticks < MaxTicks
    /\ now' = now + d
    /\ ticks' = ticks + 1
    /\ UNCHANGED <<pc, longRecordIsStr, futures, futState, done, messages,
                   nowTime, prevTime, logCheckTime, empty_pause, pauseSeconds,
                   numStuck, idx, nextRec, nextFut, submits, out, emptyAt,
                   regAtFatal, exitStatus, result>>

NextReport ==
    \/ Next
    \/ \E d \in ReportDelays : ReportTick(d)

ReportSpec == InitReport /\ [][NextReport]_vars

\* a pass of the for loop of line 137 that counted a completion
Counted == pc = "harvest" /\ done' # done /\ messages' = messages + 1

\* C14 as stated: when the counter reaches a multiple of INTERVAL one line is
\* printed whose rate is INTERVAL divided by the time from the previous report
\* to this completion, -1 when that time is not positive, and the window
\* start becomes the current time.
C14_Original ==
    [][(Counted /\ messages' % INTERVAL = 0) =>
         (/\ out'.reports = out.reports + 1
          /\ out'.speed = IF now - prevTime > 0
                            THEN INTERVAL \div (now - prevTime) ELSE -1
          /\ prevTime' = now)]_vars

\* C14 amended: when the counter reaches a multiple of INTERVAL exactly one
\* line is printed, and none otherwise; its rate is INTERVAL divided by
\* nowTime - prevTime, cut to an integer, where nowTime is the time captured
\* at the start of the iteration, before the wait, and -1 when that
\* difference is not positive; the window start becomes that nowTime.  A
\* difference of 2 seconds gives 500.
C14_ReportUsesIterationTime ==
    [][Counted =>
         IF messages' % INTERVAL = 0
           THEN /\ out'.reports = out.reports + 1
                /\ out'.speed = IF nowTime - prevTime > 0
                                  THEN INTERVAL \div (nowTime - prevTime)
                                  ELSE -1
                /\ nowTime - prevTime = 2 => out'.speed = 500
                /\ prevTime' = nowTime
           ELSE /\ out'.reports = out.reports
                /\ out'.speed = out.speed
                /\ prevTime' = prevTime]_vars

\* C14: the counter reached INTERVAL in an iteration that started 2 seconds
\* after the window start, and the line printed carries the rate 500.
C14_Witness ==
    /\ messages = INTERVAL
    /\ out.reports = 1
    /\ out.speed = 500
    /\ prevTime = 2
    /\ nowTime = 2

\* C15: once the loop is on the fatal path it stays on it; the Record Source
\* is not called, nothing is submitted, nothing is popped from the registry,
\* the completed-task counter does not move, and what was left of the set
\* `done` when the exception was raised is never iterated.
C15_FatalPathAdmitsNothing ==
    [][(pc \in FatalPcs) =>
         (/\ pc' \in FatalPcs
          /\ ~SourceCalled
          /\ nextRec' = nextRec
          /\ nextFut' = nextFut
          /\ submits' = submits
          /\ futures' = futures
          /\ messages' = messages
          /\ done' = done
          /\ result' = result)]_vars

\* C15: the process has exited after an unhandled failure of one task while
\* another finished task of the same wait is still in the registry,
\* unharvested, and the Record Source had more records.
C15_Witness ==
    /\ pc = "exited"
    /\ result.cls = "other"
    /\ done # {}
    /\ done \subseteq Handles
    /\ messages = 0
    /\ nextRec <= MaxRecords

\* a step that ends the harvest part of an iteration: line 127 found the
\* dict empty, or the for loop of line 137 is over
HarvestPartEnds ==
    \/ pc = "top" /\ pc' = "govern"
    \/ pc = "harvest" /\ done = {} /\ pc' # "harvest"

\* C16 as stated: in every iteration whose time exceeds
\* logCheckTime + LONG_RECORD / 2 the engine statistics are printed, the scan
\* of the registry starts and logCheckTime becomes the time of the iteration,
\* whether the registry is empty or not.
C16_Original ==
    [][(HarvestPartEnds /\ nowTime' > logCheckTime + (LONG_RECORD \div 2)) =>
         (/\ out'.stats = 1
          /\ logCheckTime' = nowTime'
          /\ pc' \in {"scan", "govern"})]_vars

\* the last pass of the scan of lines 177-189 is over
ScanEnds == pc = "scan" /\ pc' = "govern"

\* C17 as stated: a detection cycle in which several tasks are stuck at once
\* prints the "All ... threads are stuck" line more than once, and a cycle
\* prints it exactly when the number of flagged tasks reaches max_workers.
C17_Original ==
    [][ScanEnds =>
         (/\ numStuck' >= 2 => out'.allStuck > 1
          /\ out'.allStuck > 0 <=> numStuck' >= max_workers)]_vars

\* C17 amended: no detection cycle prints the "All ... threads are stuck"
\* line more than once.  A scan that runs to its end prints it once exactly
\* when it flagged max_workers tasks, which are then all the tasks of a full
\* registry, flagged in the last pass; a scan cut short by the NameError of
\* loggingID and a cycle over an empty registry print none.
C17_AllStuckAtMostOnce ==
    /\ [](out.allStuck <= 1)
    /\ [][/\ ScanEnds =>
               (/\ out'.allStuck = IF numStuck' >= max_workers THEN 1 ELSE 0
                /\ numStuck' <= Len(futures)
                /\ numStuck' >= max_workers =>
                     (/\ numStuck' = max_workers
                      /\ Len(futures) = max_workers
                      /\ out.allStuck = 0))
          /\ (pc = "scan" /\ pc' = "fatal") => out'.allStuck = 0
          /\ (pc = "harvest" /\ pc' = "govern") => out'.allStuck = 0]_vars

\* C17: a scan over a full registry flagged every task and printed the
\* "All ... threads are stuck" line once.
C17_Witness ==
    /\ pc = "govern"
    /\ out.stats = 1
    /\ numStuck = max_workers
    /\ Len(out.longDiag) = max_workers
    /\ max_workers >= 2
    /\ out.allStuck = 1

\* the order of the positions of one iteration (lines 126, 128, 137-189, 191,
\* 201, 203, 209, and the `continue`s of lines 196, 199 and 206)
Rank(p) ==
    CASE p = "top" -> 0
      [] p = "wait" -> 1
      [] p = "harvest" -> 2
      [] p = "scan" -> 3
      [] p = "govern" -> 4
      [] p = "sleep201" -> 5
      [] p = "pausecheck" -> 6
      [] p = "fill" -> 7
      [] OTHER -> 8

\* C18: the positions of an iteration are passed in their order, a new
\* iteration starts only from a position after governor.govern(), and no step
\* passes over governor.govern(): every iteration that does not raise
\* consults the Governor exactly once, whatever the size of the registry and
\* whether or not an empty-pause deadline is set.  Completions are harvested
\* only before it and the Record Source is called only after it.
C18_GovernorOncePerIteration ==
    [][/\ (pc \notin FatalPcs /\ pc' \notin FatalPcs /\ pc' # pc) =>
            \/ /\ Rank(pc') > Rank(pc)
               /\ Rank(pc') > 4 => Rank(pc) >= 4
            \/ /\ pc' = "top"
               /\ Rank(pc) >= 7
       /\ (pc = "govern" /\ pc' # pc) =>
            \E p \in GovernorDecisions : pauseSeconds' = p /\ pc' = AfterGovern(p)
       /\ pauseSeconds' # pauseSeconds => pc = "govern"
       /\ (done' # done \/ messages' # messages \/ Len(futures') < Len(futures))
            => Rank(pc) < 4
       /\ (SourceCalled \/ nextFut' # nextFut) => Rank(pc) > 4]_vars

\* C18: in an iteration that harvested a completion while an empty-pause
\* deadline was pending the Governor was consulted and answered with a pause.
C18_Witness ==
    /\ pc = "sleep205"
    /\ result.cls = "success"
    /\ pauseSeconds > 0
    /\ empty_pause # 0
    /\ messages = 1

\* where the coordinating thread blocks: concurrent.futures.wait and
\* time.sleep (lines 128, 195, 198, 201, 205)
BlockingPcs == {"wait", "sleep195", "sleep198", "sleep201", "sleep205"}

\* the tasks in the registry whose execution has finished
FinishedInRegistry == {f \in Handles : IsDone(f)}

\* C19: with a coordinating thread that keeps running, either the loop takes
\* the fatal path or again and again no finished task is left in the
\* registry: a finished task stays finished, so each one is eventually popped
\* and its outcome read.  This needs no answer of the Governor and no room in
\* the pool.  Again and again the loop is at line 124 and not inside a wait
\* or a sleep: no iteration blocks for ever.
C19_FinishedEventuallyHarvested ==
    /\ []<>(FinishedInRegistry = {} \/ pc \in FatalPcs)
    /\ []<>(pc \notin BlockingPcs /\ (pc = "top" \/ pc \in FatalPcs))

\* C19: a finished task was popped from a full pool and classified as bad
\* input while the Governor's last answer was negative.
C19_Witness ==
    /\ pc = "harvest"
    /\ result.cls = "badinput"
    /\ pauseSeconds < 0
    /\ Len(futures) = max_workers - 1
    /\ nextRec = max_workers + 1
    /\ done = {}

\* C20: each time the loop is at line 124 the records fetched so far are the
\* records counted as completed plus the records in the registry; the
\* counter never decreases, and each step that moves it adds one for exactly
\* one task popped from the registry, whose record is never submitted again.
C20_FetchedIsCountedPlusInFlight ==
    /\ [](pc = "top" => nextRec - 1 = messages + Len(futures))
    /\ [](\A r \in 1..MaxRecords : submits[r] <= 1)
    /\ [][/\ messages' >= messages
          /\ messages' # messages =>
               (/\ messages' = messages + 1
                /\ Len(futures') = Len(futures) - 1
                /\ Shrunk(futures', futures)
                /\ nextRec' = nextRec)]_vars

\* C20: at line 124 every record has been fetched, two are counted and one is
\* in the registry.
C20_Witness ==
    /\ pc = "top"
    /\ nextRec = MaxRecords + 1
    /\ messages = MaxRecords - 1
    /\ Len(futures) = 1
    /\ empty_pause # 0

====
